---- MODULE Spec2Model ----
(***************************************************************************)
(* Model of the PassioGo client (src/passiogo/client.py, models.py).       *)
(*                                                                         *)
(* Every public operation is one synchronous call: it posts one request,   *)
(* decodes the body that comes back and normalises it into objects.  The   *)
(* state is the call in progress: which operation, its arguments (the      *)
(* response body the server answers with is the input of the call) and     *)
(* its outcome, a returned value or a raised exception.  calls and         *)
(* requests count the calls made and the HTTP requests posted since the    *)
(* observation of the client began.                                        *)
(***************************************************************************)
EXTENDS Integers, Sequences, FiniteSets, TLC

VARIABLES pc, op, arg, result, calls, requests

vars == <<pc, op, arg, result, calls, requests>>

(***************************************************************************)
(* Bounds of the model.                                                    *)
(***************************************************************************)
MaxMissing == 2     \* keys removed from a raw record
MaxExtra == 1       \* further records after the first of a listing
MaxEntries == 3     \* entries of a route after its two metadata elements
MaxStops == 2       \* stop records of a stop listing
MaxVehicles == 2    \* keys of the buses mapping
MaxCalls == 2       \* calls in a row that are observed

(***************************************************************************)
(* Python values.  A string is a sequence of characters; the characters    *)
(* the model uses are digits and opaque letters.  Every value carries all  *)
(* three fields, so values of different types compare unequal, as with     *)
(* Python's ==.                                                            *)
(***************************************************************************)
None == [t |-> "none", s |-> <<>>, n |-> 0]
Str(x) == [t |-> "str", s |-> x, n |-> 0]
Num(k) == [t |-> "int", s |-> <<>>, n |-> k]
Bool(b) == [t |-> "bool", s |-> <<>>, n |-> IF b THEN 1 ELSE 0]

EmptyStr == Str(<<>>)

\* the decimal digits the strings of the model are written with
Digits == {"0", "1", "2", "7"}

DigitVal(c) == CASE c = "0" -> 0 [] c = "1" -> 1 [] c = "2" -> 2 [] c = "7" -> 7

RECURSIVE DecimalValue(_)
DecimalValue(s) ==
  IF s = <<>> THEN 0
  ELSE 10 * DecimalValue(SubSeq(s, 1, Len(s) - 1)) + DigitVal(s[Len(s)])

(***************************************************************************)
(* Outcome of a call or of a step of one: a returned value or a raised     *)
(* exception.  kind tells what the returned value is.                      *)
(***************************************************************************)
Return(k, v) == [status |-> "return", error |-> "", kind |-> k, value |-> v]
Raise(e) == [status |-> "raise", error |-> e, kind |-> "", value |-> <<>>]

Returned(r) == r.status = "return"
Raised(r) == r.status = "raise"

\* int(x) of Python for the values of the model
PyInt(x) ==
  CASE x.t = "none" -> Raise("TypeError")
    [] x.t = "int" -> Return("value", x)
    [] x.t = "bool" -> Return("value", Num(x.n))
    [] x.t = "str" ->
         IF x.s /= <<>> /\ \A i \in 1..Len(x.s) : x.s[i] \in Digits
         THEN Return("value", Num(DecimalValue(x.s)))
         ELSE Raise("ValueError")

\* toIntInclNone
toIntInclNone(toInt) ==
  IF toInt = None THEN Return("value", toInt) ELSE PyInt(toInt)

\* bool(int(x))
PyBoolOfInt(x) ==
  LET i == PyInt(x)
  IN  IF Raised(i) THEN i ELSE Return("value", Bool(i.value.n /= 0))

(***************************************************************************)
(* Response bodies.  kind is what response.json() makes of the body:       *)
(* "invalid" (not JSON), "null", "scalar" (a number or a boolean),         *)
(* "string", "array" or "object".  hasError is the truth of Python's       *)
(* `"error" in response` on the decoded value: a key of an object, an      *)
(* element of an array, a substring of a string.  error is the value of    *)
(* the object's error key; data is the rest of the decoded value: the      *)
(* other keys of an object, the elements of an array.                      *)
(***************************************************************************)
Body(k, h, e, d) == [kind |-> k, hasError |-> h, error |-> e, data |-> d]

NoData == <<>>

InvalidBody == Body("invalid", FALSE, None, NoData)
NullBody == Body("null", FALSE, None, NoData)
ScalarBody == Body("scalar", FALSE, None, NoData)
StringBody(h) == Body("string", h, None, NoData)
ArrayBody(h, items) == Body("array", h, None, items)
Object(d) == Body("object", FALSE, None, d)
ObjectWithError(e, d) == Body("object", TRUE, e, d)

\* values an error key is seen with: "", a message, null
ErrorValues == {EmptyStr, Str(<<"e">>), None}

\* bodies that are no JSON object
OtherBodies ==
  {InvalidBody, NullBody, ScalarBody, StringBody(FALSE), StringBody(TRUE),
   ArrayBody(FALSE, <<>>), ArrayBody(TRUE, <<>>)}

\* the bodies an endpoint is called with: every object without an error
\* key, one object with each value of the error key, and the other bodies
EndpointBodies(dataSet) ==
  {Object(d) : d \in dataSet}
    \cup {ObjectWithError(e, CHOOSE d \in dataSet : TRUE) : e \in ErrorValues}
    \cup OtherBodies

(***************************************************************************)
(* sendApiRequest: decode the body, raise on an API error, return the      *)
(* decoded value.  `"error" in response` raises TypeError on None and on   *)
(* a number; response["error"] raises TypeError on a string and a list.    *)
(***************************************************************************)
\* the check of the error member left out
sendApiRequest_Unchecked(body) ==
  IF body.kind = "invalid" THEN Raise("DecodeError") ELSE Return("json", body)

sendApiRequest(body) ==
  IF body.kind = "invalid" THEN Raise("DecodeError")
  ELSE IF body.kind \in {"null", "scalar"} THEN Raise("TypeError")
  ELSE IF body.hasError
       THEN IF body.kind /= "object" THEN Raise("TypeError")
            ELSE IF body.error /= EmptyStr THEN Raise("ApiError")
            ELSE Return("json", body)
  ELSE Return("json", body)

(***************************************************************************)
(* Sequential construction of a list: outs[i] is the outcome of building   *)
(* the i-th object.  The loop stops at the first exception; otherwise the  *)
(* call returns the list of the objects built, in order.                   *)
(***************************************************************************)
Collect(outs) ==
  LET failed == {i \in 1..Len(outs) : Raised(outs[i])}
  IN  IF failed /= {}
      THEN outs[CHOOSE i \in failed : \A j \in failed : i <= j]
      ELSE Return("list", [i \in 1..Len(outs) |-> outs[i].value])

\* the first exception among the evaluations of a sequence, in order, or
\* the given outcome when none raises
FirstRaise(evals, otherwise) ==
  LET failed == {i \in 1..Len(evals) : Raised(evals[i])}
  IN  IF failed /= {}
      THEN evals[CHOOSE i \in failed : \A j \in failed : i <= j]
      ELSE otherwise

\* d[key] of a Python dict: the value, or KeyError
Lookup(d, key) ==
  IF key \in DOMAIN d THEN Return("value", d[key]) ELSE Raise("KeyError")

\* the dict after `if key not in d: d[key] = None` for every key of keys
WithDefaults(d, keys) ==
  [k \in DOMAIN d \cup keys |-> IF k \in DOMAIN d THEN d[k] ELSE None]

\* the TransportationSystem a listing is asked of; only its id matters to
\* the requests
System(n) == [id |-> n]

Systems == {System(1), System(2)}

(***************************************************************************)
(* getStops.  The decoded response has a routes member and a stops member. *)
(* Each is the empty array [] (isList) or a mapping.  The routes mapping   *)
(* takes a route key to an array: two metadata elements, then entries that *)
(* are the number 0 or a pair [position, stopId]; the code never reads the *)
(* position of a pair.  The stops mapping is ordered: the sequence of its  *)
(* values, each a dict of the stop's fields; the code never reads its keys.*)
(***************************************************************************)
Meta == [t |-> "meta", id |-> None]
Zero == [t |-> "zero", id |-> None]
Pair(stopId) == [t |-> "pair", id |-> stopId]

EmptyList == [isList |-> TRUE, items |-> <<>>]
Mapping(m) == [isList |-> FALSE, items |-> m]

\* the conversion left out: the empty array stays an array
EmptyListAsMapping_Unconverted(x) == x

\* `if x == []: x = {}`
EmptyListAsMapping(x) == IF x = EmptyList THEN Mapping(<<>>) ELSE x

\* route[2:] with the 0 entries skipped and stop[1] taken of the others
StopIdList(route) ==
  LET tail == SubSeq(route, 3, Len(route))
      kept == SelectSeq(tail, LAMBDA e : e.t /= "zero")
  IN  [i \in 1..Len(kept) |-> kept[i].id]

\* {routeId -> [stopId, ...]}
RoutesAndStops(routes) == [r \in DOMAIN routes |-> StopIdList(routes[r])]

\* positions counted from one
Positions_OneBased(ids, stopId) ==
  SelectSeq([i \in 1..Len(ids) |-> i], LAMBDA i : ids[i] = stopId)

\* [i for i, x in enumerate(ids) if x == stopId], zero-based
Positions(ids, stopId) ==
  LET hits == SelectSeq([i \in 1..Len(ids) |-> i], LAMBDA i : ids[i] = stopId)
  IN  [k \in 1..Len(hits) |-> hits[k] - 1]

\* a key for every route, those that never visit the stop included
RoutesAndPositions_EveryRoute(routesAndStops, stopId) ==
  [r \in DOMAIN routesAndStops |-> Positions(routesAndStops[r], stopId)]

\* only the first position of the stop on each route, as list.index gives
RoutesAndPositions_FirstOnly(routesAndStops, stopId) ==
  LET served == {r \in DOMAIN routesAndStops :
                   \E i \in 1..Len(routesAndStops[r]) : routesAndStops[r][i] = stopId}
  IN  [r \in served |->
         <<(CHOOSE i \in 1..Len(routesAndStops[r]) :
              /\ routesAndStops[r][i] = stopId
              /\ \A j \in 1..(i - 1) : routesAndStops[r][j] /= stopId) - 1>>]

\* {routeId -> [position, ...]} of one stop id
RoutesAndPositions(routesAndStops, stopId) ==
  LET served == {r \in DOMAIN routesAndStops :
                   \E i \in 1..Len(routesAndStops[r]) : routesAndStops[r][i] = stopId}
  IN  [r \in served |-> Positions(routesAndStops[r], stopId)]

\* systemId = None if stop["userId"] is None else int(stop["userId"])
StopSystemId(userId) ==
  IF userId = None THEN Return("value", None) ELSE PyInt(userId)

\* one iteration of the loop over stops["stops"].items()
BuildStop(system, routesAndStops, rec) ==
  LET stop == WithDefaults(rec, {"userId", "radius"})
  IN  FirstRaise(
        <<Lookup(rec, "id"), StopSystemId(stop["userId"]), Lookup(rec, "name"),
          Lookup(rec, "latitude"), Lookup(rec, "longitude")>>,
        Return("stop",
          [id |-> stop["id"],
           routesAndPositions |-> RoutesAndPositions(routesAndStops, stop["id"]),
           systemId |-> StopSystemId(stop["userId"]).value,
           name |-> stop["name"],
           latitude |-> stop["latitude"],
           longitude |-> stop["longitude"],
           radius |-> stop["radius"],
           system |-> system]))

getStops(system, body) ==
  LET sent == sendApiRequest(body)
      stops == sent.value
  IN  IF Raised(sent) THEN sent
      ELSE IF stops.kind = "null" THEN Return("none", None)
      ELSE IF stops.kind /= "object" THEN Raise("TypeError")
      ELSE LET routes == EmptyListAsMapping(stops.data.routes)
               records == EmptyListAsMapping(stops.data.stops)
               routesAndStops == RoutesAndStops(routes.items)
           IN  \* a list has no .items()
               IF routes.isList \/ records.isList THEN Raise("AttributeError")
               ELSE Collect([i \in 1..Len(records.items) |->
                               BuildStop(system, routesAndStops, records.items[i])])

(***************************************************************************)
(* getSystems.  The "all" member of the decoded response is the array of   *)
(* system records.                                                         *)
(***************************************************************************)
optionalSystemKeys ==
  {"goAgencyName", "email", "goTestMode", "name2", "homepage", "logo",
   "goRoutePlannerEnabled", "goColor", "goSupportEmail", "goSharedCode",
   "goAuthenticationType"}

\* `if system[parameter] == '': system[parameter] = None` for every key
EmptyStringsToNone(d) == [k \in DOMAIN d |-> IF d[k] = EmptyStr THEN None ELSE d[k]]

\* f(d[key]) for a conversion f given by its outcome on the value
Converted(d, key, outcome) == IF key \in DOMAIN d THEN outcome ELSE Raise("KeyError")

\* TransportationSystem.checkTypes: the assertions on the attributes
checkTypes(self) ==
  LET StrOrNone(v) == v.t \in {"str", "none"}
      BoolOrNone(v) == v.t \in {"bool", "none"}
      IntOrNone(v) == v.t \in {"int", "none"}
  IN  /\ self.id.t = "int"
      /\ StrOrNone(self.name)
      /\ StrOrNone(self.username)
      /\ StrOrNone(self.goAgencyName)
      /\ StrOrNone(self.email)
      /\ BoolOrNone(self.goTestMode)
      /\ BoolOrNone(self.name2)
      /\ StrOrNone(self.homepage)
      /\ BoolOrNone(self.logo)
      /\ BoolOrNone(self.goRoutePlannerEnabled)
      /\ StrOrNone(self.goColor)
      /\ StrOrNone(self.goSupportEmail)
      /\ IntOrNone(self.goSharedCode)
      /\ BoolOrNone(self.goAuthenticationType)

\* bool(int(system[key])) of the constructor call
BoolField(system, key) == PyBoolOfInt(system[key])

\* one iteration of the loop over systems["all"]
BuildSystem(rec) ==
  LET system == WithDefaults(EmptyStringsToNone(rec), optionalSystemKeys)
      id == Converted(system, "id", PyInt(system["id"]))
      goTestMode == BoolField(system, "goTestMode")
      name2 == BoolField(system, "name2")
      logo == BoolField(system, "logo")
      goRoutePlannerEnabled == BoolField(system, "goRoutePlannerEnabled")
      goSharedCode == toIntInclNone(system["goSharedCode"])
      goAuthenticationType == BoolField(system, "goAuthenticationType")
      self == [id |-> id.value,
               name |-> system["fullname"],
               username |-> system["username"],
               goAgencyName |-> system["goAgencyName"],
               email |-> system["email"],
               goTestMode |-> goTestMode.value,
               name2 |-> name2.value,
               homepage |-> system["homepage"],
               logo |-> logo.value,
               goRoutePlannerEnabled |-> goRoutePlannerEnabled.value,
               goColor |-> system["goColor"],
               goSupportEmail |-> system["goSupportEmail"],
               goSharedCode |-> goSharedCode.value,
               goAuthenticationType |-> goAuthenticationType.value]
  IN  FirstRaise(
        <<id, Lookup(system, "fullname"), Lookup(system, "username"), goTestMode,
          name2, logo, goRoutePlannerEnabled, goSharedCode, goAuthenticationType>>,
        IF checkTypes(self) THEN Return("system", self) ELSE Raise("AssertionError"))

getSystems(body) ==
  LET sent == sendApiRequest(body)
      systems == sent.value
  IN  IF Raised(sent) THEN sent
      ELSE IF systems.kind = "null" THEN Return("list", <<>>)
      ELSE IF systems.kind /= "object" THEN Raise("TypeError")
      ELSE Collect([i \in 1..Len(systems.data.all) |-> BuildSystem(systems.data.all[i])])

(***************************************************************************)
(* getSystemFromID: the first system of the listing whose id is the        *)
(* argument, or None.  appVersion and sortMode keep their defaults.        *)
(***************************************************************************)
\* the loop not left at the first match: the last match is returned
getSystemFromID_LastMatch(id, body) ==
  IF id.t /= "int" THEN Raise("AssertionError")
  ELSE LET systems == getSystems(body)
           found == {i \in 1..Len(systems.value) : systems.value[i].id = id}
       IN  IF Raised(systems) THEN systems
           ELSE IF found /= {}
                THEN Return("system",
                       systems.value[CHOOSE i \in found : \A j \in found : i >= j])
                ELSE Return("none", None)

getSystemFromID(id, body) ==
  IF id.t /= "int" THEN Raise("AssertionError")
  ELSE LET systems == getSystems(body)
           found == {i \in 1..Len(systems.value) : systems.value[i].id = id}
       IN  IF Raised(systems) THEN systems
           ELSE IF found /= {}
                THEN Return("system",
                       systems.value[CHOOSE i \in found : \A j \in found : i <= j])
                ELSE Return("none", None)

(***************************************************************************)
(* printAllSystemsMd: one printed line per system of the listing, with its *)
(* name and id and the break asked for; the call returns None.             *)
(***************************************************************************)
printAllSystemsMd(includeHtmlBreaks, body) ==
  LET systems == getSystems(body)
  IN  IF Raised(systems) THEN systems
      ELSE Return("printed",
             [i \in 1..Len(systems.value) |->
                [name |-> systems.value[i].name, id |-> systems.value[i].id,
                 break |-> includeHtmlBreaks]])

(***************************************************************************)
(* getSystemAlerts.  The "msgs" member of the decoded response is the      *)
(* array of alert records; the constructor call reads every key.           *)
(***************************************************************************)
alertKeys ==
  <<"id", "userId", "routeId", "name", "html", "archive", "important",
    "created", "from", "to", "asPush", "gtfs", "gtfsAlertCauseId",
    "gtfsAlertEffectId", "gtfsAlertUrl", "gtfsAlertHeaderText",
    "gtfsAlertDescriptionText", "routeGroupId", "createdUtc", "authorId",
    "author", "updated", "updateAuthorId", "updateAuthor", "createdF", "fromF",
    "fromOk", "toOk">>

BuildAlert(system, errorMsg) ==
  FirstRaise(
    [i \in 1..Len(alertKeys) |-> Lookup(errorMsg, alertKeys[i])],
    Return("alert",
      [id |-> errorMsg["id"],
       systemId |-> errorMsg["userId"],
       system |-> system,
       routeId |-> errorMsg["routeId"],
       name |-> errorMsg["name"],
       html |-> errorMsg["html"],
       archive |-> errorMsg["archive"],
       important |-> errorMsg["important"],
       dateTimeCreated |-> errorMsg["created"],
       dateTimeFrom |-> errorMsg["from"],
       dateTimeTo |-> errorMsg["to"],
       asPush |-> errorMsg["asPush"],
       gtfs |-> errorMsg["gtfs"],
       gtfsAlertCauseId |-> errorMsg["gtfsAlertCauseId"],
       gtfsAlertEffectId |-> errorMsg["gtfsAlertEffectId"],
       gtfsAlertUrl |-> errorMsg["gtfsAlertUrl"],
       gtfsAlertHeaderText |-> errorMsg["gtfsAlertHeaderText"],
       gtfsAlertDescriptionText |-> errorMsg["gtfsAlertDescriptionText"],
       routeGroupId |-> errorMsg["routeGroupId"],
       createdUtc |-> errorMsg["createdUtc"],
       authorId |-> errorMsg["authorId"],
       author |-> errorMsg["author"],
       updated |-> errorMsg["updated"],
       updateAuthorId |-> errorMsg["updateAuthorId"],
       updateAuthor |-> errorMsg["updateAuthor"],
       createdF |-> errorMsg["createdF"],
       fromF |-> errorMsg["fromF"],
       fromOk |-> errorMsg["fromOk"],
       toOk |-> errorMsg["toOk"]]))

getSystemAlerts(system, body) ==
  LET sent == sendApiRequest(body)
      errorMsgs == sent.value
  IN  IF Raised(sent) THEN sent
      ELSE IF errorMsgs.kind = "null" THEN Return("none", None)
      ELSE IF errorMsgs.kind /= "object" THEN Raise("TypeError")
      ELSE Collect([i \in 1..Len(errorMsgs.data.msgs) |->
                      BuildAlert(system, errorMsgs.data.msgs[i])])

(***************************************************************************)
(* getRoutes.  The decoded response is an object whose "all" member is the *)
(* array of route records, or that array itself.                           *)
(***************************************************************************)
possibleKeys ==
  {"id", "groupId", "groupColor", "name", "shortName", "nameOrig", "fullname",
   "myid", "mapApp", "archive", "goPrefixRouteName", "goShowSchedule",
   "outdated", "distance", "latitude", "longitude", "timezone", "serviceTime",
   "serviceTimeShort"}

\* the keys of a decoded object
ObjectKeys(body) == DOMAIN body.data \cup (IF body.hasError THEN {"error"} ELSE {})

\* the "all" member never unwrapped: an object is iterated by its keys
RouteRecords_NeverUnwrapped(routes) ==
  IF routes.kind = "object"
  THEN [iterates |-> "strings", items |-> <<>>,
        count |-> Cardinality(ObjectKeys(routes))]
  ELSE IF routes.kind = "array"
  THEN [iterates |-> "records", items |-> routes.data]
  ELSE [iterates |-> "strings", items |-> <<>>, count |-> 1]

\* `if "all" in routes: routes = routes["all"]`, then what `for route in
\* routes` iterates over: the records of the array, or the keys of an
\* object that has no "all" member (strings), or the characters of a string
RouteRecords(routes) ==
  IF routes.kind = "object"
  THEN IF "all" \in ObjectKeys(routes)
       THEN [iterates |-> "records", items |-> routes.data.all]
       ELSE [iterates |-> "strings", items |-> <<>>,
             count |-> Cardinality(ObjectKeys(routes))]
  ELSE IF routes.kind = "array"
  THEN [iterates |-> "records", items |-> routes.data]
  ELSE [iterates |-> "strings", items |-> <<>>, count |-> 1]

\* a Route object: __init__ stores every argument but timezone
BuildRoute(system, rec) ==
  LET route == WithDefaults(rec, possibleKeys)
      systemId == IF "userId" \in DOMAIN rec THEN PyInt(rec["userId"])
                  ELSE Raise("KeyError")
  IN  IF Raised(systemId) THEN systemId
      ELSE Return("route",
             [id |-> route["id"],
              groupId |-> route["groupId"],
              groupColor |-> route["groupColor"],
              name |-> route["name"],
              shortName |-> route["shortName"],
              nameOrig |-> route["nameOrig"],
              fullname |-> route["fullname"],
              myid |-> route["myid"],
              mapApp |-> route["mapApp"],
              archive |-> route["archive"],
              goPrefixRouteName |-> route["goPrefixRouteName"],
              goShowSchedule |-> route["goShowSchedule"],
              outdated |-> route["outdated"],
              distance |-> route["distance"],
              latitude |-> route["latitude"],
              longitude |-> route["longitude"],
              serviceTime |-> route["serviceTime"],
              serviceTimeShort |-> route["serviceTimeShort"],
              systemId |-> systemId.value,
              system |-> system])

getRoutes(system, body) ==
  LET sent == sendApiRequest(body)
      routes == RouteRecords(sent.value)
  IN  IF Raised(sent) THEN sent
      ELSE IF sent.value.kind = "null" THEN Return("none", None)
      ELSE IF routes.iterates = "strings"
           \* a string has no .keys()
           THEN IF routes.count > 0 THEN Raise("AttributeError")
                ELSE Return("list", <<>>)
      ELSE Collect([i \in 1..Len(routes.items) |-> BuildRoute(system, routes.items[i])])

(***************************************************************************)
(* getVehicles.  The buses member of the decoded response is an ordered    *)
(* mapping: a sequence of [key, value], value the array of the key.        *)
(***************************************************************************)
vehicleKeys ==
  {"busId", "busName", "busType", "calculatedCourse", "routeId", "route",
   "color", "created", "latitude", "longitude", "speed", "paxLoad100",
   "outOfService", "more", "tripId"}

\* paxLoad read from the record's paxLoad key, which no response has
BuildVehicle_PaxLoadKey(system, array) ==
  IF array = <<>> THEN Raise("IndexError")
  ELSE LET vehicle == WithDefaults(array[1], vehicleKeys \cup {"paxLoad"})
       IN  Return("vehicle",
             [id |-> vehicle["busId"],
              name |-> vehicle["busName"],
              type |-> vehicle["busType"],
              system |-> system,
              calculatedCourse |-> vehicle["calculatedCourse"],
              routeId |-> vehicle["routeId"],
              routeName |-> vehicle["route"],
              color |-> vehicle["color"],
              created |-> vehicle["created"],
              latitude |-> vehicle["latitude"],
              longitude |-> vehicle["longitude"],
              speed |-> vehicle["speed"],
              paxLoad |-> vehicle["paxLoad"],
              outOfService |-> vehicle["outOfService"],
              more |-> vehicle["more"],
              tripId |-> vehicle["tripId"]])

\* one iteration of the loop over vehicles["buses"].items() for a key
\* other than "-1"
BuildVehicle(system, array) ==
  IF array = <<>> THEN Raise("IndexError")
  ELSE LET vehicle == WithDefaults(array[1], vehicleKeys)
       IN  Return("vehicle",
             [id |-> vehicle["busId"],
              name |-> vehicle["busName"],
              type |-> vehicle["busType"],
              system |-> system,
              calculatedCourse |-> vehicle["calculatedCourse"],
              routeId |-> vehicle["routeId"],
              routeName |-> vehicle["route"],
              color |-> vehicle["color"],
              created |-> vehicle["created"],
              latitude |-> vehicle["latitude"],
              longitude |-> vehicle["longitude"],
              speed |-> vehicle["speed"],
              paxLoad |-> vehicle["paxLoad100"],
              outOfService |-> vehicle["outOfService"],
              more |-> vehicle["more"],
              tripId |-> vehicle["tripId"]])

\* no entry skipped
KeptBuses_All(buses) == buses

\* the entries of the buses mapping the loop does not skip
KeptBuses(buses) == SelectSeq(buses, LAMBDA entry : entry.key /= "-1")

getVehicles(system, body) ==
  LET sent == sendApiRequest(body)
      vehicles == sent.value
  IN  IF Raised(sent) THEN sent
      ELSE IF vehicles.kind = "null" THEN Return("none", None)
      ELSE IF vehicles.kind /= "object" THEN Raise("TypeError")
      ELSE LET kept == KeptBuses(vehicles.data.buses)
           IN  Collect([i \in 1..Len(kept) |-> BuildVehicle(system, kept[i].value)])

(***************************************************************************)
(* Route.getStops: the stops of the route's system whose                   *)
(* routesAndPositions has the route's myid, id or groupId among its keys.  *)
(***************************************************************************)
\* the groupId test left out
ServedBy_NoGroupId(route, stop) ==
  \/ route.myid \in DOMAIN stop.routesAndPositions
  \/ route.id \in DOMAIN stop.routesAndPositions

ServedBy(route, stop) ==
  \/ route.myid \in DOMAIN stop.routesAndPositions
  \/ route.id \in DOMAIN stop.routesAndPositions
  \/ route.groupId \in DOMAIN stop.routesAndPositions

\* a stop appended once for each of myid, id and groupId that it has
RouteGetStops_OncePerIdentifier(route, body) ==
  LET allStops == getStops(route.system, body)
      copies(stop, identifier) ==
        IF identifier \in DOMAIN stop.routesAndPositions THEN <<stop>> ELSE <<>>
      appended[i \in 0..Len(allStops.value)] ==
        IF i = 0 THEN <<>>
        ELSE appended[i - 1] \o copies(allStops.value[i], route.myid)
               \o copies(allStops.value[i], route.id)
               \o copies(allStops.value[i], route.groupId)
  IN  IF Raised(allStops) THEN allStops
      ELSE IF allStops.kind = "none" THEN Raise("TypeError")
      ELSE Return("list", appended[Len(allStops.value)])

\* the stops asked of one fixed system, not of the route's own
RouteGetStops_OfFirstSystem(route, body) ==
  LET allStops == getStops(System(1), body)
  IN  IF Raised(allStops) THEN allStops
      ELSE IF allStops.kind = "none" THEN Raise("TypeError")
      ELSE Return("list", SelectSeq(allStops.value, LAMBDA stop : ServedBy(route, stop)))

RouteGetStops(route, body) ==
  LET allStops == getStops(route.system, body)
  IN  IF Raised(allStops) THEN allStops
      ELSE IF allStops.kind = "none" THEN Raise("TypeError")
      ELSE Return("list", SelectSeq(allStops.value, LAMBDA stop : ServedBy(route, stop)))

(***************************************************************************)
(* The HTTP requests a call posts.  sendApiRequest posts one request as    *)
(* its first statement.  Every listing calls sendApiRequest once;          *)
(* getSystemFromID and printAllSystemsMd call getSystems once, and         *)
(* Route.getStops calls getStops once.  getSystemFromID checks the types   *)
(* of its arguments before.  No call looks at what earlier calls received: *)
(* earlier, the number of requests posted so far, changes nothing.         *)
(***************************************************************************)
PostsPerRequest == 1

RequestsIssued_Cached(operation, argument, earlier) ==
  IF operation = "Route.getStops" /\ earlier > 0 THEN 0
  ELSE PostsPerRequest

RequestsIssued(operation, argument, earlier) ==
  IF operation = "getSystemFromID" /\ argument.id.t /= "int" THEN 0
  ELSE PostsPerRequest

(***************************************************************************)
(* The responses the calls are tried on.                                   *)
(***************************************************************************)
SeqsUpTo(S, n) == UNION {[1..k -> S] : k \in 0..n}

\* the subsets of S with at most n elements
RECURSIVE SubsetsUpTo(_, _)
SubsetsUpTo(S, n) ==
  IF n = 0 THEN {{}}
  ELSE LET smaller == SubsetsUpTo(S, n - 1)
       IN  smaller \cup {D \cup {x} : D \in smaller, x \in S}

\* the dict that has every key of keys but the missing ones, each with the
\* value this model gives it: the key's own name as a string
RecordWithout(keys, missing) == [k \in keys \ missing |-> Str(<<k>>)]

\* d with d[key] = value when the key is present
Override(d, key, value) ==
  [k \in DOMAIN d |-> IF k = key THEN value ELSE d[k]]

RouteKeys == {Str(<<"1">>), Str(<<"2">>)}
StopIds == {Str(<<"7">>), Str(<<"2", "7">>)}
StopKeys == {"id", "userId", "radius", "name", "latitude", "longitude"}
UserIdValues == {Str(<<"7">>), Str(<<"a">>), None}

StopRecord(stopId, missing, userId) ==
  Override(Override(RecordWithout(StopKeys, missing), "id", stopId), "userId", userId)

PlainStop(stopId) == StopRecord(stopId, {}, Str(<<"1", "2">>))

PlainStops == {PlainStop(s) : s \in StopIds}

\* stop listings whose first record may lack keys or carry another userId
VariedStopListings(n) ==
  {<<StopRecord(s, m, u)>> \o rest :
     s \in StopIds, m \in SubsetsUpTo(StopKeys, MaxMissing), u \in UserIdValues,
     rest \in SeqsUpTo(PlainStops, n - 1)}

RouteArrays(entryValues, n) == {<<Meta, Meta>> \o e : e \in SeqsUpTo(entryValues, n)}

\* the mappings with no route or the one route of key
OneRoute(key, arrays) == {<<>>} \cup {[r \in {key} |-> a] : a \in arrays}

\* routes mappings: route "1" with up to n entries, route "2" with up to
\* one, either of them possibly absent
RouteMappings(entryValues, n) ==
  {f @@ g : f \in OneRoute(Str(<<"1">>), RouteArrays(entryValues, n)),
            g \in OneRoute(Str(<<"2">>), RouteArrays(entryValues, 1))}

Pairs == {Pair(s) : s \in StopIds}

StopsData(routeMappings, stopListings) ==
  {[routes |-> r, stops |-> s] :
     r \in {EmptyList} \cup {Mapping(m) : m \in routeMappings},
     s \in {EmptyList} \cup {Mapping(l) : l \in stopListings}}

\* every route mapping with well-formed stops, and every stop listing with
\* one route
GetStopsData ==
  StopsData(RouteMappings({Zero} \cup Pairs, MaxEntries), SeqsUpTo(PlainStops, MaxStops))
    \cup StopsData({[r \in {Str(<<"1">>)} |-> <<Meta, Meta, Pair(Str(<<"7">>))>>]},
                   VariedStopListings(MaxStops))

\* a Route as far as Route.getStops reads it; the identifiers are the raw
\* values of the route record: strings, numbers or None
RouteIdValues == RouteKeys \cup {None, Num(1)}

Routes ==
  {[myid |-> m, id |-> i, groupId |-> g, system |-> System(1)] :
     m \in RouteIdValues, i \in RouteIdValues, g \in RouteIdValues}
    \cup {[myid |-> None, id |-> Str(<<"1">>), groupId |-> None, system |-> System(2)]}

RouteGetStopsData ==
  StopsData(RouteMappings(Pairs, 1), SeqsUpTo(PlainStops, MaxStops))

\* d without the missing keys
Without(d, missing) == [k \in DOMAIN d \ missing |-> d[k]]

\* values a raw field is seen with: "", "0", "1", a word, null, a number
RawValues == {EmptyStr, Str(<<"0">>), Str(<<"1">>), Str(<<"a">>), None, Num(1)}

\* listings whose first record is one of first and whose further records
\* are among others
Listings(first, others) ==
  {<<>>} \cup {<<r>> \o rest : r \in first, rest \in SeqsUpTo(others, MaxExtra)}

systemKeys == optionalSystemKeys \cup {"id", "fullname", "username"}

BaseSystem(id) ==
  [k \in systemKeys |->
     CASE k = "id" -> id
       [] k \in {"goTestMode", "logo", "goAuthenticationType"} -> Str(<<"1">>)
       [] k \in {"name2", "goRoutePlannerEnabled"} -> Str(<<"0">>)
       [] k = "goSharedCode" -> Str(<<"1", "2">>)
       [] OTHER -> Str(<<k>>)]

\* a full record with at most MaxMissing keys removed or with one value
\* replaced
SystemRecords ==
  {Without(BaseSystem(Str(<<"7">>)), m) : m \in SubsetsUpTo(systemKeys, MaxMissing)}
    \cup {Override(BaseSystem(Str(<<"7">>)), k, v) : k \in systemKeys, v \in RawValues}

GetSystemsData ==
  {[all |-> l] :
     l \in Listings(SystemRecords, {BaseSystem(Str(<<"1">>)), BaseSystem(Str(<<"2">>))})}

\* a well-formed system record of the given id and name
NamedSystem(id, name) == Override(BaseSystem(id), "fullname", name)

\* listings of well-formed systems, two of them with the same id
GetSystemFromIDData ==
  {[all |-> l] :
     l \in SeqsUpTo({NamedSystem(Str(<<"1">>), Str(<<"a">>)),
                     NamedSystem(Str(<<"1">>), Str(<<"b">>)),
                     NamedSystem(Str(<<"2">>), Str(<<"c">>))}, MaxExtra + 1)}

\* the ids getSystemFromID is asked for
SystemIdsAsked == {Num(1), Num(2), Num(7)}

routeKeys == possibleKeys \cup {"userId"}

BaseRoute(id) ==
  [k \in routeKeys |->
     CASE k = "id" -> id [] k = "userId" -> Str(<<"7">>) [] OTHER -> Str(<<k>>)]

\* a full record with at most MaxMissing keys removed or with another
\* userId
RouteRecordsTried ==
  {Without(BaseRoute(Str(<<"1">>)), m) : m \in SubsetsUpTo(routeKeys, MaxMissing)}
    \cup {Override(BaseRoute(Str(<<"1">>)), "userId", u) :
            u \in {Str(<<"2", "7">>), Str(<<"a">>), None, Num(7)}}

RouteListings == Listings(RouteRecordsTried, {BaseRoute(Str(<<"2">>))})

\* the two shapes of a route listing
Wrapped(records) == Object([all |-> records])
Unwrapped(records) == ArrayBody(FALSE, records)

\* an object that maps a route id to its record, with no "all" member
KeyedById(record) == Object([k \in {"1"} |-> record])

GetRoutesBodies ==
  EndpointBodies({[all |-> l] : l \in RouteListings})
    \cup {Unwrapped(l) : l \in RouteListings}
    \cup {Object(<<>>), KeyedById(BaseRoute(Str(<<"1">>)))}

BaseVehicle(busId) == Override(RecordWithout(vehicleKeys, {}), "busId", busId)

\* d with an error member of its own
WithNestedError(d, e) == [k \in DOMAIN d \cup {"error"} |-> IF k = "error" THEN e ELSE d[k]]

\* a full record with at most MaxMissing keys removed or with an error
\* member
VehicleRecords(busId) ==
  {Without(BaseVehicle(busId), m) : m \in SubsetsUpTo(vehicleKeys, MaxMissing)}
    \cup {WithNestedError(BaseVehicle(busId), Str(<<"e">>))}

busKeys == {"-1", "1", "2"}

PlainBus(key) == [key |-> key, value |-> <<BaseVehicle(Str(<<key>>))>>]

\* buses mappings: the first key has an array of one varied record or of two
\* records; the other keys are distinct and have one record
BusListingsFrom(k) ==
  {<<[key |-> k, value |-> array]>> \o [i \in 1..Len(ks) |-> PlainBus(ks[i])] :
     array \in {<<r>> : r \in VehicleRecords(Str(<<k>>))}
                 \cup {<<BaseVehicle(Str(<<k>>)), BaseVehicle(Str(<<"b">>))>>},
     ks \in {q \in SeqsUpTo(busKeys \ {k}, MaxVehicles - 1) :
               \A i, j \in 1..Len(q) : i /= j => q[i] /= q[j]}}

BusListings == {<<>>} \cup UNION {BusListingsFrom(k) : k \in busKeys}

GetVehiclesData == {[buses |-> l] : l \in BusListings}

BaseAlert(id) ==
  [k \in {alertKeys[i] : i \in 1..Len(alertKeys)} |->
     IF k = "id" THEN id ELSE Str(<<k>>)]

AlertRecords ==
  {Without(BaseAlert(Str(<<"1">>)), m) :
     m \in SubsetsUpTo(DOMAIN BaseAlert(None), MaxMissing)}

GetSystemAlertsData ==
  {[msgs |-> l] : l \in Listings(AlertRecords, {BaseAlert(Str(<<"2">>))})}

(***************************************************************************)
(* The calls.                                                              *)
(***************************************************************************)
Init ==
  /\ pc = "idle"
  /\ op = "none"
  /\ arg = [body |-> NullBody]
  /\ result = Raise("")
  /\ calls = 0
  /\ requests = 0

CallSendApiRequest ==
  /\ pc = "idle"
  /\ calls < MaxCalls
  /\ \E body \in EndpointBodies({NoData}) \cup {ArrayBody(FALSE, <<1>>)} :
       /\ arg' = [body |-> body]
       /\ result' = sendApiRequest(body)
       /\ requests' = requests + RequestsIssued("sendApiRequest", [body |-> body], requests)
  /\ op' = "sendApiRequest"
  /\ pc' = "done"
  /\ calls' = calls + 1

CallGetSystems ==
  /\ pc = "idle"
  /\ calls < MaxCalls
  /\ \E body \in EndpointBodies(GetSystemsData) :
       /\ arg' = [body |-> body]
       /\ result' = getSystems(body)
       /\ requests' = requests + RequestsIssued("getSystems", [body |-> body], requests)
  /\ op' = "getSystems"
  /\ pc' = "done"
  /\ calls' = calls + 1

CallGetSystemFromID ==
  /\ pc = "idle"
  /\ calls < MaxCalls
  /\ \E id \in SystemIdsAsked, body \in EndpointBodies(GetSystemFromIDData) :
       /\ arg' = [id |-> id, body |-> body]
       /\ result' = getSystemFromID(id, body)
       /\ requests' = requests + RequestsIssued("getSystemFromID", [id |-> id, body |-> body], requests)
  /\ op' = "getSystemFromID"
  /\ pc' = "done"
  /\ calls' = calls + 1

CallPrintAllSystemsMd ==
  /\ pc = "idle"
  /\ calls < MaxCalls
  /\ \E includeHtmlBreaks \in BOOLEAN, body \in EndpointBodies(GetSystemFromIDData) :
       /\ arg' = [includeHtmlBreaks |-> includeHtmlBreaks, body |-> body]
       /\ result' = printAllSystemsMd(includeHtmlBreaks, body)
       /\ requests' = requests + RequestsIssued("printAllSystemsMd", [includeHtmlBreaks |-> includeHtmlBreaks, body |-> body], requests)
  /\ op' = "printAllSystemsMd"
  /\ pc' = "done"
  /\ calls' = calls + 1

CallGetRoutes ==
  /\ pc = "idle"
  /\ calls < MaxCalls
  /\ \E system \in Systems, body \in GetRoutesBodies :
       /\ arg' = [system |-> system, body |-> body]
       /\ result' = getRoutes(system, body)
       /\ requests' = requests + RequestsIssued("getRoutes", [system |-> system, body |-> body], requests)
  /\ op' = "getRoutes"
  /\ pc' = "done"
  /\ calls' = calls + 1

CallGetStops ==
  /\ pc = "idle"
  /\ calls < MaxCalls
  /\ \E system \in Systems, body \in EndpointBodies(GetStopsData) :
       /\ arg' = [system |-> system, body |-> body]
       /\ result' = getStops(system, body)
       /\ requests' = requests + RequestsIssued("getStops", [system |-> system, body |-> body], requests)
  /\ op' = "getStops"
  /\ pc' = "done"
  /\ calls' = calls + 1

CallGetSystemAlerts ==
  /\ pc = "idle"
  /\ calls < MaxCalls
  /\ \E system \in Systems, body \in EndpointBodies(GetSystemAlertsData) :
       /\ arg' = [system |-> system, body |-> body]
       /\ result' = getSystemAlerts(system, body)
       /\ requests' = requests + RequestsIssued("getSystemAlerts", [system |-> system, body |-> body], requests)
  /\ op' = "getSystemAlerts"
  /\ pc' = "done"
  /\ calls' = calls + 1

CallGetVehicles ==
  /\ pc = "idle"
  /\ calls < MaxCalls
  /\ \E system \in Systems, body \in EndpointBodies(GetVehiclesData) :
       /\ arg' = [system |-> system, body |-> body]
       /\ result' = getVehicles(system, body)
       /\ requests' = requests + RequestsIssued("getVehicles", [system |-> system, body |-> body], requests)
  /\ op' = "getVehicles"
  /\ pc' = "done"
  /\ calls' = calls + 1

CallRouteGetStops ==
  /\ pc = "idle"
  /\ calls < MaxCalls
  /\ \E route \in Routes, body \in EndpointBodies(RouteGetStopsData) :
       /\ arg' = [route |-> route, body |-> body]
       /\ result' = RouteGetStops(route, body)
       /\ requests' = requests + RequestsIssued("Route.getStops", [route |-> route, body |-> body], requests)
  /\ op' = "Route.getStops"
  /\ pc' = "done"
  /\ calls' = calls + 1

\* the call has returned or raised and the observation ends; the client is
\* as it was at the start
Finish ==
  /\ pc = "done"
  /\ pc' = "idle"
  /\ op' = "none"
  /\ arg' = [body |-> NullBody]
  /\ result' = Raise("")
  /\ calls' = 0
  /\ requests' = 0

Next ==
  \/ CallSendApiRequest
  \/ CallGetSystems
  \/ CallGetSystemFromID
  \/ CallPrintAllSystemsMd
  \/ CallGetRoutes
  \/ CallGetSystemAlerts
  \/ CallGetVehicles
  \/ CallGetStops
  \/ CallRouteGetStops
  \/ Finish

Spec == Init /\ [][Next]_vars

(***************************************************************************)
(* Calls in a row: the call has returned or raised and the client is ready *)
(* for the next call; the calls and the requests stay counted.             *)
(***************************************************************************)
NextCall ==
  /\ pc = "done"
  /\ pc' = "idle"
  /\ op' = "none"
  /\ arg' = [body |-> NullBody]
  /\ result' = Raise("")
  /\ UNCHANGED <<calls, requests>>

NextCalls ==
  \/ CallSendApiRequest
  \/ CallGetSystems
  \/ CallGetSystemFromID
  \/ CallPrintAllSystemsMd
  \/ CallGetRoutes
  \/ CallGetSystemAlerts
  \/ CallGetVehicles
  \/ CallGetStops
  \/ CallRouteGetStops
  \/ NextCall

SpecCalls == Init /\ [][NextCalls]_vars

(***************************************************************************)
(* Properties.                                                             *)
(***************************************************************************)
Done(operation) == pc = "done" /\ op = operation

\* the body is a JSON object with no error member or an empty one
Accepted(body) == body.kind = "object" /\ (body.hasError => body.error = EmptyStr)

ReturnedList(operation) ==
  Done(operation) /\ Returned(result) /\ result.kind = "list"

\* the stop ids of the entries, the 0 entries left out
RECURSIVE NonPlaceholderIds(_)
NonPlaceholderIds(entries) ==
  IF entries = <<>> THEN <<>>
  ELSE IF Head(entries).t = "zero" THEN NonPlaceholderIds(Tail(entries))
  ELSE <<Head(entries).id>> \o NonPlaceholderIds(Tail(entries))

\* the routes and the stop records of the raw response of the call
RawRoutes == arg.body.data.routes.items
RawStops == arg.body.data.stops.items

\* route R's stop-id list: the entries after the two metadata elements
RouteStopIds(R) == NonPlaceholderIds(Tail(Tail(RawRoutes[R])))

\* C1: every position recorded in routesAndPositions[R] of a stop returned
\* by getStops is a zero-based index into route R's stop-id list, and the
\* list has the stop's id there.
C1_PositionsIndexTheStop ==
  ReturnedList("getStops") =>
    \A n \in 1..Len(result.value) :
      LET S == result.value[n]
      IN  \A R \in DOMAIN S.routesAndPositions :
            /\ R \in DOMAIN RawRoutes
            /\ \A k \in 1..Len(S.routesAndPositions[R]) :
                 LET i == S.routesAndPositions[R][k]
                 IN  /\ i \in 0..(Len(RouteStopIds(R)) - 1)
                     /\ RouteStopIds(R)[i + 1] = S.id

\* a stop visited twice by a route that also has a placeholder entry
C1_Witness ==
  /\ ReturnedList("getStops")
  /\ \E n \in 1..Len(result.value) :
       \E R \in DOMAIN result.value[n].routesAndPositions :
         /\ Len(result.value[n].routesAndPositions[R]) >= 2
         /\ \E e \in 3..Len(RawRoutes[R]) : RawRoutes[R][e] = Zero

\* the ids the returned stops place at position i of route R
PlacedAt(R, i) ==
  {result.value[n].id :
     n \in {m \in 1..Len(result.value) :
              /\ R \in DOMAIN result.value[m].routesAndPositions
              /\ \E k \in 1..Len(result.value[m].routesAndPositions[R]) :
                   result.value[m].routesAndPositions[R][k] = i}}

\* the positions the returned stops record for route R
PlacedPositions(R) ==
  UNION {{result.value[n].routesAndPositions[R][k] :
            k \in 1..Len(result.value[n].routesAndPositions[R])} :
         n \in {m \in 1..Len(result.value) :
                  R \in DOMAIN result.value[m].routesAndPositions}}

\* rebuilding route R's list from the returned stops gives the original
RoundTrip(R) ==
  /\ PlacedPositions(R) = 0..(Len(RouteStopIds(R)) - 1)
  /\ \A i \in 0..(Len(RouteStopIds(R)) - 1) : PlacedAt(R, i) = {RouteStopIds(R)[i + 1]}

\* every stop id on a route of the response is the id of a stop record
EveryRouteStopHasARecord ==
  \A R \in DOMAIN RawRoutes :
    \A i \in 1..Len(RouteStopIds(R)) :
      \E n \in 1..Len(RawStops) :
        "id" \in DOMAIN RawStops[n] /\ RawStops[n]["id"] = RouteStopIds(R)[i]

\* C2, as claimed: for every response getStops returns a listing for, the
\* round trip reproduces every route's stop-id list.
C2_RoundTripAlways ==
  ReturnedList("getStops") => \A R \in DOMAIN RawRoutes : RoundTrip(R)

\* C2, amended: the round trip reproduces every route's stop-id list when
\* every stop id on a route of the response is the id of a stop record of
\* the response.
C2_RoundTripOfRecordedStops ==
  (ReturnedList("getStops") /\ EveryRouteStopHasARecord) =>
    \A R \in DOMAIN RawRoutes : RoundTrip(R)

\* a route that visits a stop twice and another stop once, all with records
C2_Witness ==
  /\ ReturnedList("getStops")
  /\ EveryRouteStopHasARecord
  /\ \E R \in DOMAIN RawRoutes :
       /\ Len(RouteStopIds(R)) = 3
       /\ Cardinality({RouteStopIds(R)[i] : i \in 1..3}) = 2

\* a stop record the constructor call of getStops accepts
WellFormedStop(rec) ==
  /\ {"id", "name", "latitude", "longitude"} \subseteq DOMAIN rec
  /\ "userId" \in DOMAIN rec => rec["userId"] = None \/ Returned(PyInt(rec["userId"]))

\* C4, as claimed: with routes [] or stops [] (and stop records the
\* constructor call accepts) getStops returns an empty list.
C4_EmptyMeansEmptyResult ==
  (Done("getStops") /\ Accepted(arg.body)
     /\ (arg.body.data.routes = EmptyList \/ arg.body.data.stops = EmptyList)
     /\ \A n \in 1..Len(RawStops) : WellFormedStop(RawStops[n]))
    => result = Return("list", <<>>)

\* C4, amended: with stops [] getStops returns an empty list; with routes []
\* and stop records that each have id, name, latitude and longitude and an
\* absent, null or decimal userId, it returns one Stop per record, in order,
\* each with an empty routesAndPositions.  Neither raises.
C4_EmptyArrayIsEmptyMapping ==
  (Done("getStops") /\ Accepted(arg.body)) =>
    /\ arg.body.data.stops = EmptyList => result = Return("list", <<>>)
    /\ (arg.body.data.routes = EmptyList /\ \A n \in 1..Len(RawStops) : WellFormedStop(RawStops[n]))
         => /\ Returned(result) /\ result.kind = "list"
            /\ Len(result.value) = Len(RawStops)
            /\ \A n \in 1..Len(RawStops) :
                 /\ result.value[n].id = RawStops[n]["id"]
                 /\ DOMAIN result.value[n].routesAndPositions = {}

\* routes [] with two stop records
C4_Witness ==
  /\ ReturnedList("getStops")
  /\ arg.body.data.routes = EmptyList
  /\ arg.body.data.stops /= EmptyList
  /\ Len(result.value) = 2

\* the stop listing Route.getStops filters
AllStops == getStops(arg.route.system, arg.body).value

\* C7: Route.getStops returns every stop of the system's listing that has
\* the route's groupId among the keys of its routesAndPositions.
C7_GroupIdAloneIsIncluded ==
  ReturnedList("Route.getStops") =>
    \A n \in 1..Len(AllStops) :
      arg.route.groupId \in DOMAIN AllStops[n].routesAndPositions
        => \E m \in 1..Len(result.value) : result.value[m] = AllStops[n]

\* a returned stop that has the groupId as a key and neither id nor myid
C7_Witness ==
  /\ ReturnedList("Route.getStops")
  /\ \E m \in 1..Len(result.value) :
       /\ arg.route.groupId \in DOMAIN result.value[m].routesAndPositions
       /\ arg.route.id \notin DOMAIN result.value[m].routesAndPositions
       /\ arg.route.myid \notin DOMAIN result.value[m].routesAndPositions

\* the response is a route listing of either shape
IsRouteListing(body) ==
  \/ Accepted(body) /\ "all" \in DOMAIN body.data
  \/ body.kind = "array" /\ ~body.hasError

RouteListingOf(body) == IF body.kind = "object" THEN body.data.all ELSE body.data

\* the same records in the other shape
OtherShape(body) ==
  IF body.kind = "object" THEN Unwrapped(body.data.all) ELSE Wrapped(body.data)

\* C3: getRoutes has the same outcome on a listing wrapped under "all" and
\* on the same listing unwrapped, and returns one Route per record for
\* either shape when every record has a userId that int() accepts.
C3_WrappedAndUnwrappedAgree ==
  (Done("getRoutes") /\ IsRouteListing(arg.body)) =>
    /\ result = getRoutes(arg.system, OtherShape(arg.body))
    /\ (\A n \in 1..Len(RouteListingOf(arg.body)) :
          /\ "userId" \in DOMAIN RouteListingOf(arg.body)[n]
          /\ Returned(PyInt(RouteListingOf(arg.body)[n]["userId"])))
         => /\ Returned(result) /\ result.kind = "list"
            /\ Len(result.value) = Len(RouteListingOf(arg.body))

\* two routes returned from a listing wrapped under "all"
C3_Witness ==
  /\ ReturnedList("getRoutes")
  /\ arg.body.kind = "object"
  /\ Len(result.value) = 2

\* the entries of the buses mapping whose key is not "-1", in order
RECURSIVE EntriesButSentinel(_)
EntriesButSentinel(buses) ==
  IF buses = <<>> THEN <<>>
  ELSE IF Head(buses).key = "-1" THEN EntriesButSentinel(Tail(buses))
  ELSE <<Head(buses)>> \o EntriesButSentinel(Tail(buses))

\* C5: getVehicles returns exactly one Vehicle for every key of buses other
\* than "-1", in response order, built from the first element of the key's
\* array, and none for "-1".
C5_SentinelSkipped ==
  (Done("getVehicles") /\ Accepted(arg.body)) =>
    LET entries == EntriesButSentinel(arg.body.data.buses)
    IN  /\ Returned(result) /\ result.kind = "list"
        /\ Len(result.value) = Len(entries)
        /\ \A i \in 1..Len(entries) :
             /\ result.value[i] = BuildVehicle(arg.system, <<entries[i].value[1]>>).value
             /\ "busId" \in DOMAIN entries[i].value[1]
                  => result.value[i].id = Str(<<entries[i].key>>)

\* a response whose first key is "-1", with a two-element array, and that
\* has another key
C5_Witness ==
  /\ ReturnedList("getVehicles")
  /\ Len(arg.body.data.buses) = 2
  /\ arg.body.data.buses[1].key = "-1"
  /\ Len(arg.body.data.buses[1].value) = 2
  /\ Len(result.value) = 1

\* a system record that lacks optional keys and nothing else
LacksOnlyOptionalKeys(rec) ==
  \E id \in {Str(<<"7">>), Str(<<"1">>), Str(<<"2">>)} :
    \E m \in SUBSET optionalSystemKeys : rec = Without(BaseSystem(id), m)

\* C6, as claimed: for records that lack optional keys getSystems returns
\* the systems, each with None in the fields whose key was missing.
C6_MissingOptionalKeysGiveNone ==
  (Done("getSystems") /\ Accepted(arg.body)
     /\ \A n \in 1..Len(arg.body.data.all) : LacksOnlyOptionalKeys(arg.body.data.all[n]))
    => /\ Returned(result) /\ result.kind = "list"
       /\ Len(result.value) = Len(arg.body.data.all)
       /\ \A n \in 1..Len(result.value) :
            \A k \in optionalSystemKeys \ DOMAIN arg.body.data.all[n] :
              result.value[n][k] = None

\* C8, as claimed: sendApiRequest has three outcomes: a decode error for a
\* body that is no JSON, an API error for an error member that is not
\* empty, the decoded value otherwise.
C8_ThreeOutcomes ==
  Done("sendApiRequest") =>
    result = IF arg.body.kind = "invalid" THEN Raise("DecodeError")
             ELSE IF arg.body.kind = "object" /\ arg.body.hasError
                     /\ arg.body.error /= EmptyStr
                  THEN Raise("ApiError")
             ELSE Return("json", arg.body)

\* a record of the buses mapping has an error member that is not empty
NestedError(body) ==
  \E i \in 1..Len(body.data.buses) :
    \E j \in 1..Len(body.data.buses[i].value) :
      LET rec == body.data.buses[i].value[j]
      IN  "error" \in DOMAIN rec /\ rec["error"] /= EmptyStr

TopLevelError(body) ==
  body.kind = "object" /\ body.hasError /\ body.error /= EmptyStr

Endpoints ==
  {"sendApiRequest", "getSystems", "getRoutes", "getStops", "getSystemAlerts",
   "getVehicles", "Route.getStops"}

\* C9, as claimed: an error member that is not empty, at top level or in a
\* contained record, makes the call raise.
C9_ErrorAnywhereRaises ==
  (Done("getVehicles") /\ arg.body.kind = "object"
     /\ (TopLevelError(arg.body) \/ NestedError(arg.body)))
    => Raised(result)

\* C9, amended: an error member of the response object itself that is not
\* the empty string makes every call raise the API error; an error member
\* of a contained record is not looked at and the record is returned as
\* normal data.
C9_TopLevelErrorRaises ==
  /\ (pc = "done" /\ op \in Endpoints /\ TopLevelError(arg.body))
       => result = Raise("ApiError")
  /\ (Done("getVehicles") /\ Accepted(arg.body) /\ NestedError(arg.body))
       => Returned(result)

\* a listing call answered with an object whose error member is a message
C9_Witness ==
  /\ Done("getVehicles")
  /\ TopLevelError(arg.body)
  /\ arg.body.error = Str(<<"e">>)
  /\ "buses" \in DOMAIN arg.body.data
  /\ result = Raise("ApiError")

\* C10, as claimed: on a response that decodes to None getSystems returns
\* an empty list and the other listings return None.
C10_AbsentResponseSentinels ==
  (pc = "done" /\ arg.body.kind = "null") =>
    /\ op = "getSystems" => result = Return("list", <<>>)
    /\ op \in {"getRoutes", "getStops", "getSystemAlerts", "getVehicles"}
         => result = Return("none", None)

booleanSystemKeys ==
  {"goTestMode", "name2", "logo", "goRoutePlannerEnabled", "goAuthenticationType"}

\* a record with every key, whose boolean fields are "0", "1" or "", whose
\* goSharedCode is "" or a number and whose other fields are strings
FlagsAndCodeAsDocumented(rec) ==
  /\ DOMAIN rec = systemKeys
  /\ rec["id"] \in {Str(<<"7">>), Str(<<"1">>), Str(<<"2">>)}
  /\ \A k \in booleanSystemKeys : rec[k] \in {Str(<<"0">>), Str(<<"1">>), EmptyStr}
  /\ rec["goSharedCode"] \in {Str(<<"0">>), Str(<<"1">>), Str(<<"1", "2">>), EmptyStr}
  /\ \A k \in systemKeys \ (booleanSystemKeys \cup {"id", "goSharedCode"}) :
       rec[k].t = "str"

\* the value the claim gives a boolean field
ClaimedFlag(raw) ==
  CASE raw = Str(<<"0">>) -> Bool(FALSE)
    [] raw = Str(<<"1">>) -> Bool(TRUE)
    [] OTHER -> None

\* the value the claim gives goSharedCode
ClaimedCode(raw) ==
  CASE raw = Str(<<"0">>) -> Num(0)
    [] raw = Str(<<"1">>) -> Num(1)
    [] raw = Str(<<"1", "2">>) -> Num(12)
    [] OTHER -> None

(***************************************************************************)
(* C12, as claimed: getSystems gives each boolean field false for "0",     *)
(* true for "1" and null for "", gives goSharedCode its integer value or   *)
(* null, gives every other field null when its raw value is "", and        *)
(* raises no error for an empty string in any of these fields.             *)
(***************************************************************************)
C12_FlagsCodeAndEmptyStrings ==
  (Done("getSystems") /\ Accepted(arg.body)
     /\ \A n \in 1..Len(arg.body.data.all) :
          FlagsAndCodeAsDocumented(arg.body.data.all[n]))
    => /\ Returned(result) /\ result.kind = "list"
       /\ Len(result.value) = Len(arg.body.data.all)
       /\ \A n \in 1..Len(arg.body.data.all) :
            LET rec == arg.body.data.all[n]
                system == result.value[n]
            IN  /\ \A k \in booleanSystemKeys : system[k] = ClaimedFlag(rec[k])
                /\ system["goSharedCode"] = ClaimedCode(rec["goSharedCode"])
                /\ \A k \in {"goAgencyName", "email", "homepage", "goColor",
                               "goSupportEmail", "username"} :
                     system[k] = IF rec[k] = EmptyStr THEN None ELSE rec[k]

\* what does hold: with "0" or "1" in every boolean field the fields are as
\* claimed, and an empty goSharedCode or text field gives null
C12_HoldsWithoutEmptyFlags ==
  (Done("getSystems") /\ Accepted(arg.body)
     /\ \A n \in 1..Len(arg.body.data.all) :
          /\ FlagsAndCodeAsDocumented(arg.body.data.all[n])
          /\ \A k \in booleanSystemKeys : arg.body.data.all[n][k] /= EmptyStr)
    => /\ Returned(result) /\ result.kind = "list"
       /\ \A n \in 1..Len(arg.body.data.all) :
            LET rec == arg.body.data.all[n]
                system == result.value[n]
            IN  /\ \A k \in booleanSystemKeys : system[k] = ClaimedFlag(rec[k])
                /\ system["goSharedCode"] = ClaimedCode(rec["goSharedCode"])
                /\ \A k \in {"goAgencyName", "email", "homepage", "goColor",
                               "goSupportEmail", "username"} :
                     system[k] = IF rec[k] = EmptyStr THEN None ELSE rec[k]

\* the integer the claim gives systemId, for the userId values int() accepts
ClaimedSystemId(raw) ==
  CASE raw = Str(<<"7">>) -> Num(7)
    [] raw = Str(<<"2", "7">>) -> Num(27)
    [] raw = Num(7) -> Num(7)
    [] OTHER -> None

\* every record of the listing has a userId that int() accepts
EveryUserIdConverts(body) ==
  /\ IsRouteListing(body)
  /\ \A n \in 1..Len(RouteListingOf(body)) :
       /\ "userId" \in DOMAIN RouteListingOf(body)[n]
       /\ ClaimedSystemId(RouteListingOf(body)[n]["userId"]) /= None

\* the route has the field, with the record's raw value or null
CarriesRawValue(route, rec, k) ==
  /\ k \in DOMAIN route
  /\ route[k] = IF k \in DOMAIN rec THEN rec[k] ELSE None

(***************************************************************************)
(* C13, as claimed: getRoutes returns one Route per record, in which every *)
(* field of the fixed key list is null when the record lacks it and the    *)
(* record's raw value otherwise, and systemId is int(userId); no missing   *)
(* listed field raises an error.                                           *)
(***************************************************************************)
C13_EveryListedFieldCarried ==
  (Done("getRoutes") /\ EveryUserIdConverts(arg.body))
    => /\ Returned(result) /\ result.kind = "list"
       /\ Len(result.value) = Len(RouteListingOf(arg.body))
       /\ \A n \in 1..Len(RouteListingOf(arg.body)) :
            LET rec == RouteListingOf(arg.body)[n]
                route == result.value[n]
            IN  /\ \A k \in possibleKeys : CarriesRawValue(route, rec, k)
                /\ route.systemId = ClaimedSystemId(rec["userId"])

\* what does hold: the same for every listed field but timezone
C13_HoldsButForTimezone ==
  (Done("getRoutes") /\ EveryUserIdConverts(arg.body))
    => /\ Returned(result) /\ result.kind = "list"
       /\ Len(result.value) = Len(RouteListingOf(arg.body))
       /\ \A n \in 1..Len(RouteListingOf(arg.body)) :
            LET rec == RouteListingOf(arg.body)[n]
                route == result.value[n]
            IN  /\ \A k \in possibleKeys \ {"timezone"} : CarriesRawValue(route, rec, k)
                /\ route.systemId = ClaimedSystemId(rec["userId"])

\* the key of the bus record each attribute of a Vehicle is read from
RawKeyOf(attribute) ==
  CASE attribute = "id" -> "busId"
    [] attribute = "name" -> "busName"
    [] attribute = "type" -> "busType"
    [] attribute = "routeName" -> "route"
    [] attribute = "paxLoad" -> "paxLoad100"
    [] OTHER -> attribute

vehicleAttributes ==
  {"id", "name", "type", "calculatedCourse", "routeId", "routeName", "color",
   "created", "latitude", "longitude", "speed", "paxLoad", "outOfService",
   "more", "tripId"}

(***************************************************************************)
(* C14: getVehicles returns one Vehicle per kept entry of buses, built     *)
(* from the first record of the entry's array: id, name, type, routeName   *)
(* and paxLoad are the raw busId, busName, busType, route and paxLoad100,  *)
(* every other attribute is the raw value of the key of its name, and an   *)
(* attribute whose key the record lacks is null; no missing key raises.    *)
(***************************************************************************)
C14_VehicleFieldsMapped ==
  (Done("getVehicles") /\ Accepted(arg.body)) =>
    LET entries == EntriesButSentinel(arg.body.data.buses)
    IN  /\ Returned(result) /\ result.kind = "list"
        /\ Len(result.value) = Len(entries)
        /\ \A i \in 1..Len(entries) :
             LET rec == entries[i].value[1]
                 vehicle == result.value[i]
             IN  \A a \in vehicleAttributes :
                   vehicle[a] = IF RawKeyOf(a) \in DOMAIN rec THEN rec[RawKeyOf(a)]
                                ELSE None

\* a Vehicle built from a record that lacks busName and another key and
\* has paxLoad100
C14_Witness ==
  /\ ReturnedList("getVehicles")
  /\ Len(result.value) >= 1
  /\ arg.body.data.buses[1].key = "1"
  /\ Cardinality(vehicleKeys \ DOMAIN arg.body.data.buses[1].value[1]) = 2
  /\ result.value[1].name = None
  /\ result.value[1].paxLoad = Str(<<"paxLoad100">>)
  /\ result.value[1].id = Str(<<"1">>)

(***************************************************************************)
(* C15: every Route, Stop, SystemAlert and Vehicle a listing returns has   *)
(* as its system the TransportationSystem the listing was asked of, and    *)
(* every Stop that Route.getStops returns has the route's own system; the  *)
(* system is after the call the one it was before.                         *)
(***************************************************************************)
C15_SystemIsTheOneQueried ==
  /\ \A o \in {"getRoutes", "getStops", "getSystemAlerts", "getVehicles"} :
       ReturnedList(o) =>
         /\ arg.system \in Systems
         /\ \A n \in 1..Len(result.value) : result.value[n].system = arg.system
  /\ ReturnedList("Route.getStops") =>
       /\ arg.route.system \in Systems
       /\ \A n \in 1..Len(result.value) : result.value[n].system = arg.route.system

\* a route of the second system gets a stop of the second system
C15_Witness ==
  /\ ReturnedList("Route.getStops")
  /\ arg.route.system = System(2)
  /\ Len(result.value) >= 1
  /\ result.value[1].system = System(2)

\* the places of the listing whose record has the id asked for
PlacesOfId(listing, id) ==
  {n \in 1..Len(listing) :
     \/ id = Num(1) /\ listing[n]["id"] = Str(<<"1">>)
     \/ id = Num(2) /\ listing[n]["id"] = Str(<<"2">>)
     \/ id = Num(7) /\ listing[n]["id"] = Str(<<"7">>)}

(***************************************************************************)
(* C16: on a listing of well-formed systems getSystemFromID(id) returns    *)
(* the system built from the first record of the listing with that id, and *)
(* None when the listing has no such record or is empty.                   *)
(***************************************************************************)
C16_FirstSystemOfThatId ==
  (Done("getSystemFromID") /\ Accepted(arg.body)) =>
    LET listing == arg.body.data.all
        places == PlacesOfId(listing, arg.id)
    IN  /\ Returned(result)
        /\ places = {} => result.kind = "none" /\ result.value = None
        /\ places /= {} =>
             /\ result.kind = "system"
             /\ result.value.id = arg.id
             /\ \E n \in places :
                  /\ \A m \in places : n <= m
                  /\ result.value.name = listing[n]["fullname"]

\* two systems of the id asked for, with different names: the first one is
\* returned
C16_Witness ==
  /\ Done("getSystemFromID") /\ Returned(result)
  /\ arg.id = Num(1)
  /\ Len(arg.body.data.all) = 2
  /\ arg.body.data.all[1]["fullname"] = Str(<<"b">>)
  /\ arg.body.data.all[2]["fullname"] = Str(<<"a">>)
  /\ PlacesOfId(arg.body.data.all, arg.id) = {1, 2}
  /\ result.value.name = Str(<<"b">>)

(***************************************************************************)
(* C17, as claimed: every Route that getRoutes returns has the documented  *)
(* attribute timezone, equal to the record's timezone or null when the     *)
(* record has none.                                                        *)
(***************************************************************************)
C17_RouteExposesTimezone ==
  ReturnedList("getRoutes") =>
    \A n \in 1..Len(result.value) :
      CarriesRawValue(result.value[n], RouteListingOf(arg.body)[n], "timezone")

\* the identifiers of the route that are among the keys of the stop's
\* routesAndPositions; null is never among them
IdentifiersMatched(route, stop) ==
  {v \in {route.myid, route.id, route.groupId} :
     v /= None /\ v \in DOMAIN stop.routesAndPositions}

\* the stops of the listing that match an identifier, each once, in order
RECURSIVE StopsMatched(_, _)
StopsMatched(route, stops) ==
  IF stops = <<>> THEN <<>>
  ELSE (IF IdentifiersMatched(route, Head(stops)) /= {} THEN <<Head(stops)>> ELSE <<>>)
         \o StopsMatched(route, Tail(stops))

(***************************************************************************)
(* C18: Route.getStops returns exactly the stops of the system's listing   *)
(* whose routesAndPositions has the route's myid, id or groupId among its  *)
(* keys, a null identifier matching nothing; each such stop appears once,  *)
(* however many identifiers it matches, in the order of the listing.       *)
(***************************************************************************)
C18_ExactlyTheMatchingStops ==
  ReturnedList("Route.getStops") =>
    result.value = StopsMatched(arg.route, AllStops)

\* of two stops the second alone is returned; it matches myid and id, which
\* differ, and the route's groupId is null
C18_Witness ==
  /\ ReturnedList("Route.getStops")
  /\ Len(AllStops) = 2
  /\ result.value = <<AllStops[2]>>
  /\ arg.route.groupId = None
  /\ arg.route.myid /= arg.route.id
  /\ IdentifiersMatched(arg.route, AllStops[2]) = {arg.route.myid, arg.route.id}

\* the places of route R's stop-id list, counted from one, that hold the id
Occurrences(R, id) == {i \in 1..Len(RouteStopIds(R)) : RouteStopIds(R)[i] = id}

(***************************************************************************)
(* C19: for every stop getStops returns, routesAndPositions has the key R  *)
(* exactly when the stop's id occurs in route R's stop-id list; no value   *)
(* is an empty list; every value is strictly increasing, so without        *)
(* duplicates, and as long as the id occurs often in the list.             *)
(***************************************************************************)
C19_KeysAndPositionLists ==
  ReturnedList("getStops") =>
    \A n \in 1..Len(result.value) :
      LET S == result.value[n]
          positions == S.routesAndPositions
      IN  /\ DOMAIN positions \subseteq DOMAIN RawRoutes
          /\ \A R \in DOMAIN RawRoutes :
               R \in DOMAIN positions <=> Occurrences(R, S.id) /= {}
          /\ \A R \in DOMAIN positions :
               /\ positions[R] /= <<>>
               /\ \A j, k \in 1..Len(positions[R]) :
                    j < k => positions[R][j] < positions[R][k]
               /\ Len(positions[R]) = Cardinality(Occurrences(R, S.id))

\* a stop that one route visits twice and another route never
C19_Witness ==
  /\ ReturnedList("getStops")
  /\ \E n \in 1..Len(result.value) :
       \E R, Q \in DOMAIN RawRoutes :
         /\ R \in DOMAIN result.value[n].routesAndPositions
         /\ Len(result.value[n].routesAndPositions[R]) = 2
         /\ Q \notin DOMAIN result.value[n].routesAndPositions
         /\ RouteStopIds(Q) /= <<>>

====
